---- MODULE Spec2Model ----
(***************************************************************************)
(* ShaiMind: a Streamlit chat front-end for LLM-backed personas.           *)
(* Model of src/emotion_manager.py, src/llm_handler.py and src/app.py.     *)
(*                                                                         *)
(* Python strings are modelled as sequences of one-character strings, so   *)
(* that lower(), strip(), split(), "in", startswith() and the \b regular   *)
(* expressions are computed character by character.                        *)
(***************************************************************************)
EXTENDS Integers, Sequences, FiniteSets, TLC

(***************************************************************************)
(* Characters and the Python string primitives the program uses.           *)
(***************************************************************************)
\* the backtick character (it cannot be written inside a TLA+ string)
BackTick == "<backtick>"

LowerLetters ==
    {"a","b","c","d","e","f","g","h","i","j","k","l","m",
     "n","o","p","q","r","s","t","u","v","w","x","y","z"}

UpperLetters ==
    {"A","B","C","D","E","F","G","H","I","J","K","L","M",
     "N","O","P","Q","R","S","T","U","V","W","X","Y","Z"}

Digits == {"0","1","2","3","4","5","6","7","8","9"}

\* str.isalpha() on one character
Letters == LowerLetters \cup UpperLetters

\* the characters the regular-expression class \w accepts
WordChars == Letters \cup Digits \cup {"_"}

\* the characters str.strip() removes
Whitespace == {" ", "\n", "\t", "\r"}

UpperSeq == <<"A","B","C","D","E","F","G","H","I","J","K","L","M","N","O","P","Q","R","S","T","U","V",
       "W","X","Y","Z">>

LowerSeq == <<"a","b","c","d","e","f","g","h","i","j","k","l","m","n","o","p","q","r","s","t","u","v",
       "w","x","y","z">>

\* str.lower() on one character
LowerChar(c) ==
    IF c \in UpperLetters
    THEN LowerSeq[CHOOSE i \in 1..26 : UpperSeq[i] = c]
    ELSE c

\* str.lower()
Lower(s) == [i \in 1..Len(s) |-> LowerChar(s[i])]

\* s[i:i+len(m)] == m
IsAt(s, m, i) ==
    /\ i >= 1
    /\ i + Len(m) - 1 <= Len(s)
    /\ \A k \in 1..Len(m) : s[i + k - 1] = m[k]

\* the positions at which m occurs in s
Occurrences(s, m) == {i \in 1..(Len(s) - Len(m) + 1) : IsAt(s, m, i)}

\* m in s
Contains(s, m) == Occurrences(s, m) # {}

\* s.startswith(m)
StartsWith(s, m) == IsAt(s, m, 1)

\* s.endswith(m)
EndsWith(s, m) == Len(m) <= Len(s) /\ IsAt(s, m, Len(s) - Len(m) + 1)

\* s.removeprefix(m)
RemovePrefix(s, m) ==
    IF StartsWith(s, m) THEN SubSeq(s, Len(m) + 1, Len(s)) ELSE s

\* s.removesuffix(m)
RemoveSuffix(s, m) ==
    IF EndsWith(s, m) THEN SubSeq(s, 1, Len(s) - Len(m)) ELSE s

\* s.strip()
Strip(s) ==
    LET keep == {i \in 1..Len(s) : s[i] \notin Whitespace}
    IN  IF keep = {} THEN <<>>
        ELSE LET lo == CHOOSE i \in keep : \A j \in keep : i <= j
                 hi == CHOOSE i \in keep : \A j \in keep : j <= i
             IN  SubSeq(s, lo, hi)

\* s.split(m, 1)[-1]: what follows the first occurrence of m
AfterFirst(s, m) ==
    LET occ == Occurrences(s, m)
    IN  IF occ = {} THEN s
        ELSE LET first == CHOOSE i \in occ : \A j \in occ : i <= j
             IN  SubSeq(s, first + Len(m), Len(s))

\* s.split(m)[-1]: what follows the last occurrence of m (all of s when m
\* does not occur)
AfterLast(s, m) ==
    LET occ == Occurrences(s, m)
    IN  IF occ = {} THEN s
        ELSE LET last == CHOOSE i \in occ : \A j \in occ : j <= i
             IN  SubSeq(s, last + Len(m), Len(s))

\* s.isalpha()
IsAlpha(s) == Len(s) > 0 /\ \A i \in 1..Len(s) : s[i] \in Letters

\* re.search(r"\bword\b", s): word occurs in s with a word boundary on
\* both sides.  Every trigger word begins and ends with a \w character, so
\* a boundary is the start or end of s or an adjacent non-\w character.
WordSearch(word, s) ==
    \E i \in Occurrences(s, word) :
        /\ (i = 1 \/ s[i - 1] \notin WordChars)
        /\ (i + Len(word) - 1 = Len(s) \/ s[i + Len(word)] \notin WordChars)

\* Clamp without the max(0, ...)
ClampNoFloor(n) == IF n > 10 THEN 10 ELSE n

\* max(0, min(n, 10))
Clamp(n) == IF n < 0 THEN 0 ELSE IF n > 10 THEN 10 ELSE n

(***************************************************************************)
(* emotion_manager.py                                                      *)
(***************************************************************************)
\* the triggers dict with the mortality rule moved to the front
triggersMortalityFirst ==
    << [word |-> <<"m","o","r","t","a","l","i","t","y">>, emotion |-> "introspective", change |-> 2],
       [word |-> <<"d","e","a","t","h">>,     emotion |-> "melancholy",    change |-> 2],
       [word |-> <<"l","o","v","e">>,      emotion |-> "nostalgic",     change |-> 1],
       [word |-> <<"f","e","a","r">>,      emotion |-> "anxious",       change |-> 1],
       [word |-> <<"h","o","p","e">>,      emotion |-> "reflective",    change |-> -1],
       [word |-> <<"r","a","v","e","n">>,     emotion |-> "curious",       change |-> 1] >>

\* the triggers dict of update_emotional_state, in insertion order
triggers ==
    << [word |-> <<"d","e","a","t","h">>,     emotion |-> "melancholy",    change |-> 2],
       [word |-> <<"l","o","v","e">>,      emotion |-> "nostalgic",     change |-> 1],
       [word |-> <<"f","e","a","r">>,      emotion |-> "anxious",       change |-> 1],
       [word |-> <<"h","o","p","e">>,      emotion |-> "reflective",    change |-> -1],
       [word |-> <<"r","a","v","e","n">>,     emotion |-> "curious",       change |-> 1],
       [word |-> <<"m","o","r","t","a","l","i","t","y">>, emotion |-> "introspective", change |-> 2] >>

\* the for loop of update_emotional_state without its break: the last
\* matching rule is the one whose effect stays
RECURSIVE TriggerLoopNoBreak(_, _)
TriggerLoopNoBreak(input_lower, k) ==
    IF k > Len(triggers) THEN 0
    ELSE LET later == TriggerLoopNoBreak(input_lower, k + 1)
         IN  IF later # 0 THEN later
             ELSE IF WordSearch(triggers[k].word, input_lower) THEN k
             ELSE 0

\* the for loop of update_emotional_state from rule k on: the index of the
\* rule whose body runs (the loop breaks there), 0 when the loop runs out
RECURSIVE TriggerLoop(_, _)
TriggerLoop(input_lower, k) ==
    IF k > Len(triggers) THEN 0
    ELSE IF WordSearch(triggers[k].word, input_lower) THEN k
    ELSE TriggerLoop(input_lower, k + 1)

\* the rule update_emotional_state applies to user_input (0: none)
FiredRule(user_input) == TriggerLoop(Lower(user_input), 1)

\* update_emotional_state: the emotional fields of personality_state after
\* the call
update_emotional_state(personality_state, user_input) ==
    LET k == FiredRule(user_input)
    IN  IF k = 0 THEN personality_state
        ELSE [personality_state EXCEPT
                 !.emotional_state = triggers[k].emotion,
                 !.emotional_intensity =
                     Clamp(personality_state.emotional_intensity
                           + triggers[k].change)]

\* what apply_decision_heuristics returns when no heuristic triggers; the
\* caller only tests the truth value of the result
None == <<>>

\* the heuristics dict without its last entry
heuristicsNoRaven == << <<"d","e","a","t","h">>, <<"l","o","v","e">> >>

\* the heuristics dict of apply_decision_heuristics, in insertion order
heuristics == << <<"d","e","a","t","h">>, <<"l","o","v","e">>, <<"r","a","v","e","n">> >>

\* the response_fn of the k-th heuristic, called
HeuristicResponse(k, name) ==
    CASE k = 1 -> <<"A","h",","," ","d","e","a","t","h","!"," ","T","h","e"," ","e","t","e","r","n","a","l",
       " ","m","u","s","e"," ","o","f"," ","m","y"," ","m","u","s","i","n","g","s","."," ">> \o name
                  \o <<" ","c","a","n","n","o","t"," ","h","e","l","p"," ","b","u","t"," ","d","w","e","l","l",
       " ","u","p","o","n"," ","i","t","s"," ","m","y","s","t","e","r","y",".">>
      [] k = 2 -> <<"L","o","v","e",","," ","t","h","a","t"," ","b","i","t","t","e","r","s","w","e","e","t",
       " ","e","l","i","x","i","r",","," ","f","i","l","l","s"," ","m","y"," ","h","e","a","r",
       "t"," ","w","i","t","h"," ","b","o","t","h"," ","l","o","n","g","i","n","g"," ","a","n",
       "d"," ","s","o","r","r","o","w",".">>
      [] k = 3 -> <<"T","h","e"," ","r","a","v","e","n",","," ","e","v","e","r"," ","w","a","t","c","h","f",
       "u","l",","," ","r","e","m","a","i","n","s"," ","a"," ","s","t","e","a","d","f","a","s",
       "t"," ","s","y","m","b","o","l"," ","o","f"," ","m","y"," ","c","o","n","t","e","m","p",
       "l","a","t","i","o","n","s",".">>

\* trigger in user_input
HeuristicTestCaseSensitive(trigger, user_input) == Contains(user_input, trigger)

\* trigger in user_input.lower()
HeuristicTest(trigger, user_input) == Contains(Lower(user_input), trigger)

\* the for loop of apply_decision_heuristics from entry k on: the index of
\* the entry whose response is returned, 0 when the loop runs out
RECURSIVE HeuristicLoop(_, _)
HeuristicLoop(user_input, k) ==
    IF k > Len(heuristics) THEN 0
    ELSE IF HeuristicTest(heuristics[k], user_input) THEN k
    ELSE HeuristicLoop(user_input, k + 1)

\* apply_decision_heuristics
apply_decision_heuristics(personality_state, user_input) ==
    LET k == HeuristicLoop(user_input, 1)
    IN  IF k = 0 THEN None ELSE HeuristicResponse(k, personality_state.name)

(***************************************************************************)
(* llm_handler.py                                                          *)
(***************************************************************************)
\* str() of a natural number
RECURSIVE Str(_)
Str(n) ==
    LET digit == <<"0","1","2","3","4","5","6","7","8","9">>[(n % 10) + 1]
    IN  IF n < 10 THEN <<digit>> ELSE Append(Str(n \div 10), digit)

AuthMessage ==
    <<"I","'","m"," ","s","o","r","r","y",","," ","b","u","t"," ","m","y"," ","c","o","n","n",
       "e","c","t","i","o","n"," ","t","o"," ","t","h","e"," ","m","i","n","d","-","s","t","r",
       "e","a","m"," ","i","s"," ","r","e","p","o","r","t","i","n","g"," ","a","n"," ","i","n",
       "v","a","l","i","d"," ","a","c","c","e","s","s"," ","k","e","y","."," ","P","l","e","a",
       "s","e"," ","e","n","s","u","r","e"," ","m","y"," ","o","p","e","r","a","t","o","r"," ",
       "h","a","s"," ","s","e","t"," ","u","p"," ","t","h","e"," ","O","p","e","n","A","I"," ",
       "A","P","I"," ","k","e","y"," ","c","o","r","r","e","c","t","l","y",".">>

RateLimitMessage ==
    <<"M","y"," ","t","h","o","u","g","h","t","s"," ","a","r","e"," ","r","a","c","i","n","g",
       ","," ","b","u","t"," ","I","'","m"," ","b","e","i","n","g"," ","a","s","k","e","d"," ",
       "t","o"," ","s","l","o","w"," ","d","o","w","n","."," ","P","l","e","a","s","e"," ","g",
       "i","v","e"," ","m","e"," ","a"," ","m","o","m","e","n","t"," ","b","e","f","o","r","e",
       " ","a","s","k","i","n","g"," ","a","g","a","i","n",".">>

BadRequestMessage ==
    <<"M","y"," ","i","n","t","e","r","n","a","l"," ","p","r","o","c","e","s","s","i","n","g",
       " ","i","s"," ","e","n","c","o","u","n","t","e","r","i","n","g"," ","a"," ","c","o","m",
       "p","l","e","x"," ","i","n","p","u","t"," ","I"," ","c","a","n","n","o","t"," ","f","u",
       "l","l","y"," ","p","a","r","s","e","."," ","C","o","u","l","d"," ","y","o","u"," ","r",
       "e","p","h","r","a","s","e"," ","o","r"," ","s","i","m","p","l","i","f","y","?">>

\* the message of the last branch of the APIStatusError handler
ApiErrorMessage(status_code) ==
    <<"I"," ","s","e","e","m"," ","t","o"," ","h","a","v","e"," ","e","n","c","o","u","n","t",
       "e","r","e","d"," ","a"," ","t","e","m","p","o","r","a","r","y"," ","d","i","s","r","u",
       "p","t","i","o","n"," ","i","n"," ","m","y"," ","t","h","o","u","g","h","t"," ","p","r",
       "o","c","e","s","s"," ","(","A","P","I"," ","E","r","r","o","r",":"," ">>
    \o Str(status_code) \o <<")","."," ","P","l","e","a","s","e"," ","t","r","y"," ","a","g","a","i","n"," ","s","h",
       "o","r","t","l","y",".">>

\* the message of the catch-all handler
UnexpectedMessage(detail) ==
    <<"I"," ","s","e","e","m"," ","t","o"," ","h","a","v","e"," ","e","n","c","o","u","n","t",
       "e","r","e","d"," ","a","n"," ","u","n","e","x","p","e","c","t","e","d"," ","e","r","r",
       "o","r"," ","i","n"," ","m","y"," ","t","h","o","u","g","h","t","s",":"," ">> \o detail

\* What openai_client.chat.completions.create does in one call: it returns
\* a completion (kind "ok", its text in content), raises APIStatusError
\* (kind "status") or raises another exception (kind "exception", str(e) in
\* content).
Completion(text) == [kind |-> "ok", content |-> text, status_code |-> 200]

StatusError(code) == [kind |-> "status", content |-> <<>>, status_code |-> code]

OtherError(detail) == [kind |-> "exception", content |-> detail, status_code |-> 0]

\* generate_persona_response with the messages of the 429 and 400 branches
\* exchanged
generate_persona_response_swapped(outcome) ==
    CASE outcome.kind = "ok" -> Strip(outcome.content)
      [] outcome.kind = "status" ->
            IF outcome.status_code = 401 THEN AuthMessage
            ELSE IF outcome.status_code = 429 THEN BadRequestMessage
            ELSE IF outcome.status_code = 400 THEN RateLimitMessage
            ELSE ApiErrorMessage(outcome.status_code)
      [] outcome.kind = "exception" -> UnexpectedMessage(outcome.content)

\* generate_persona_response, given what the API call does.  The messages
\* sent are conversation_history + two new entries: a new list, the
\* caller's history is not changed.
generate_persona_response(outcome) ==
    CASE outcome.kind = "ok" -> Strip(outcome.content)
      [] outcome.kind = "status" ->
            IF outcome.status_code = 401 THEN AuthMessage
            ELSE IF outcome.status_code = 429 THEN RateLimitMessage
            ELSE IF outcome.status_code = 400 THEN BadRequestMessage
            ELSE ApiErrorMessage(outcome.status_code)
      [] outcome.kind = "exception" -> UnexpectedMessage(outcome.content)

(***************************************************************************)
(* app.py: extract_final_response                                          *)
(***************************************************************************)
Fence == <<BackTick, BackTick, BackTick>>

UserMessageMarker == <<"U","S","E","R"," ","M","E","S","S","A","G","E",":">>

ResponseMarker == <<"R","E","S","P","O","N","S","E",":">>

\* f"Respond as {personality_state.name},"
RespondAsMarker(name) == <<"R","e","s","p","o","n","d"," ","a","s"," ">> \o name \o <<",">>

\* if marker in cleaned_text: cleaned_text = cleaned_text.split(marker)[-1].strip()
CutAtMarker(text, marker) ==
    IF Contains(text, marker) THEN Strip(AfterLast(text, marker)) ELSE text

\* lines 141-146: drop a first line that looks like a language specifier
DropLanguageLine(text) ==
    LET nl == Occurrences(text, <<"\n">>)
    IN  IF nl = {} THEN text
        ELSE LET first == CHOOSE i \in nl : \A j \in nl : i <= j
                 first_line_stripped == Lower(Strip(SubSeq(text, 1, first - 1)))
             IN  IF /\ Len(first_line_stripped) < 20
                    /\ ~Contains(first_line_stripped, <<" ">>)
                    /\ IsAlpha(first_line_stripped)
                 THEN Strip(SubSeq(text, first + 1, Len(text)))
                 ELSE text

\* lines 138-146: remove markdown code block fences
StripFences(text) ==
    IF StartsWith(text, Fence) /\ EndsWith(text, Fence)
    THEN DropLanguageLine(Strip(RemoveSuffix(RemovePrefix(text, Fence), Fence)))
    ELSE text

\* extract_final_response; name is personality_state.name, which the
\* function reads from the enclosing script
extract_final_response(raw_text, name) ==
    StripFences(
        CutAtMarker(
            CutAtMarker(
                CutAtMarker(raw_text, UserMessageMarker),
                RespondAsMarker(name)),
            ResponseMarker))

(***************************************************************************)
(* app.py: the script.  Streamlit runs it from the top on every            *)
(* interaction and on every st.rerun(); only st.session_state survives     *)
(* from one run to the next.                                               *)
(***************************************************************************)
\* the .json files of the identities folder, in os.listdir order
PersonaKeys == <<"poe", "tesla">>

PersonaSet == {PersonaKeys[i] : i \in 1..Len(PersonaKeys)}

\* the content of identities/<key>.json
IdentityFile(key) ==
    IF key = "poe"
    THEN [name |-> <<"P","o","e">>, system_prompt |-> <<"Y","o","u"," ","a","r","e"," ","E","d","g","a","r"," ","A","l","l","a","n"," ","P","o",
       "e",".">>,
          emotional_state |-> "melancholy", emotional_intensity |-> 5]
    ELSE [name |-> <<"T","e","s","l","a">>, system_prompt |-> <<"Y","o","u"," ","a","r","e"," ","N","i","k","o","l","a"," ","T","e","s","l","a",".">>,
          emotional_state |-> "curious", emotional_intensity |-> 9]

\* personality_manager.load_personality: a PersonalityState built from the
\* parsed file
load_personality(key) == IdentityFile(key)

\* lines 29-37: the personalities dict the script builds when it runs
LoadPersonalities == [key \in PersonaSet |-> load_personality(key)]

\* lines 62-63: the selected persona of a run
SessionPersona(selected) ==
    IF selected \notin PersonaSet THEN PersonaKeys[1] ELSE selected

\* [{"role": "system", "content": personality_state.system_prompt}]
ResetHistory(personality_state) ==
    << [role |-> "system", content |-> personality_state.system_prompt] >>

\* line 81 left out: the history is kept when the persona changes
HistoryKept(history, personality_state) == history

\* line 81: the history after a change of persona
HistoryOnPersonaChange(history, personality_state) ==
    ResetHistory(personality_state)

\* lines 87-88; history is <<>> when the session has none yet
InitHistory(history, personality_state) ==
    IF history = <<>> \/ history[1].content # personality_state.system_prompt
    THEN ResetHistory(personality_state)
    ELSE history

\* conversation_history.insert(0, {"role": role, "content": content})
AddToHistoryFront(history, role, content) ==
    <<[role |-> role, content |-> content]>> \o history

\* conversation_history.append({"role": role, "content": content})
AddToHistory(history, role, content) ==
    Append(history, [role |-> role, content |-> content])

(***************************************************************************)
(* Bounds and the inputs drawn within them.                                *)
(***************************************************************************)
\* a message given to update_emotional_state is the concatenation of at
\* most MaxWords pieces
MaxWords == 2

\* a raw text given to extract_final_response is the concatenation of at
\* most MaxFrags pieces
MaxFrags == 3

\* successive applications of extract_final_response to one text
MaxPasses == 2

\* user messages per session
MaxTurns == 2

\* flatten a sequence of strings
RECURSIVE Concat(_)
Concat(ss) == IF ss = <<>> THEN <<>> ELSE Head(ss) \o Concat(Tail(ss))

\* all concatenations of at most n pieces
Concatenations(pieces, n) ==
    {Concat(ss) : ss \in UNION {[1..k -> pieces] : k \in 0..n}}

\* the pieces of the messages given to update_emotional_state: every
\* trigger word, two of them capitalised, one without a space after it
WordPieces ==
    { <<"D","e","a","t","h">>, <<"l","o","v","e"," ">>, <<"f","e","a","r"," ">>, <<"h","o","p","e"," ">>, <<"r","a","v","e","n"," ">>, <<"M","o","r","t","a","l","i","t","y"," ">> }

UserInputs == Concatenations(WordPieces, MaxWords)

\* the pieces of the raw texts given to extract_final_response
RawPieces ==
    { <<"U","S","E","R"," ","M","E","S","S","A","G","E",":">>, <<"R","E","S","P","O","N","S","E",":">>, <<"R","e","s","p","o","n","d"," ","a","s"," ","P","o","e",",">>, Fence,
      <<"t","e","x","t","\n">>, <<"H","e","l","l","o"," ","t","h","e","r","e">>, <<" ">> }

RawTexts == Concatenations(RawPieces, MaxFrags)

\* the messages typed in a session
SessionInputs ==
    { <<"T","e","l","l"," ","m","e"," ","a","b","o","u","t"," ","t","h","e"," ","r","a","v","e",
       "n"," ","o","u","t","s","i","d","e">>, <<"D","e","a","t","h","l","y"," ","l","o","v","e">>, <<"L","o","v","e","l","y"," ","R","a","v","e","n">>,
      <<"I"," ","f","e","a","r"," ","t","h","e"," ","d","a","r","k">>, <<"m","o","r","t","a","l","i","t","y"," ","a","n","d"," ","h","o","p","e">>, <<"M","o","r","t","a","l","i","t","y">>,
      <<"h","e","l","l","o">> }

\* what the API call of a turn can do
Outcomes ==
    { Completion(<<" ","N","e","v","e","r","m","o","r","e","."," ","\n">>),
      Completion(<<"R","E","S","P","O","N","S","E",":"," ",BackTick,BackTick,BackTick,"t","e","x","t","\n",
       "H","e","l","l","o"," ","t","h","e","r","e",BackTick,BackTick,BackTick>>),
      StatusError(401), StatusError(429), StatusError(400), StatusError(503),
      OtherError(<<"C","o","n","n","e","c","t","i","o","n"," ","e","r","r","o","r",".">>) }

(***************************************************************************)
(* State                                                                   *)
(***************************************************************************)
VARIABLES
    \* the session
    personalities,           \* the personalities dict of the last script run
    selected_persona,        \* st.session_state.selected_persona
    selected_persona_from_ui,\* the value of the selectbox
    conversation_history,    \* st.session_state.conversation_history
    last_response,           \* st.session_state.last_response
    pc,                      \* "idle": the script ran to its end and waits;
                             \* "rerun": it stopped at st.rerun()
    event,                   \* what the last script run handled
    msg_count,               \* messages handled so far
    user_input,              \* the last message
    turn,                    \* which calls the last message made
    seen_state,              \* personality_state when the last message came in
    left_state,              \* personality_state when its handling ended
    \* update_emotional_state called on one PersonalityState
    ps,                      \* the PersonalityState
    ps_before,               \* the PersonalityState before the last call
    message,                 \* the input of the last call
    \* extract_final_response applied repeatedly
    raw_text,                \* the text to clean
    cleaned                  \* the results of the successive applications

session_vars ==
    <<personalities, selected_persona, selected_persona_from_ui,
      conversation_history, last_response, pc, event, msg_count, user_input,
      turn, seen_state, left_state>>

engine_vars == <<ps, ps_before, message>>

cleaner_vars == <<raw_text, cleaned>>

vars == <<session_vars, engine_vars, cleaner_vars>>

\* turn when no message has been handled since the session began or the
\* persona changed; dropped counts the entries a change of persona removed
NoTurn ==
    [heuristic |-> 0, engine_called |-> FALSE, rule |-> 0,
     llm_called |-> FALSE, status_code |-> 0, dropped |-> 0]

\* the session once the script has run for the first time
SessionStart ==
    /\ personalities = LoadPersonalities
    /\ selected_persona = SessionPersona("")
    /\ selected_persona_from_ui = SessionPersona("")
    /\ conversation_history =
           InitHistory(<<>>, LoadPersonalities[SessionPersona("")])
    /\ last_response = <<>>
    /\ pc = "idle"
    /\ event = "start"
    /\ msg_count = 0
    /\ user_input = <<>>
    /\ turn = NoTurn
    /\ seen_state = LoadPersonalities[SessionPersona("")]
    /\ left_state = LoadPersonalities[SessionPersona("")]

EngineStart ==
    /\ ps = load_personality("poe")
    /\ ps_before = ps
    /\ message = <<>>

CleanerStart ==
    /\ raw_text = <<>>
    /\ cleaned = <<>>

(***************************************************************************)
(* The session: one action per script run                                  *)
(***************************************************************************)
Init == SessionStart /\ EngineStart /\ CleanerStart

\* The user picks another persona in the selectbox: lines 29-83.
SelectPersona(choice) ==
    /\ pc = "idle"
    /\ choice # selected_persona
    /\ LET loaded == LoadPersonalities
           personality_state == loaded[choice]
       IN  /\ personalities' = loaded
           /\ selected_persona_from_ui' = choice
           /\ selected_persona' = choice
           /\ conversation_history' =
                  HistoryOnPersonaChange(conversation_history, personality_state)
           /\ last_response' = <<>>
    /\ pc' = "rerun"
    /\ event' = "select"
    /\ turn' = [NoTurn EXCEPT !.dropped = Len(conversation_history) - 1]
    /\ UNCHANGED <<msg_count, user_input, seen_state, left_state>>

\* lines 159-173, given what the API call does if it is made: the response
\* text, the PersonalityState afterwards and the calls made
Respond(personality_state, input, outcome) ==
    LET heuristic_response == apply_decision_heuristics(personality_state, input)
    IN  IF heuristic_response # <<>>
        THEN [response_text |-> heuristic_response,
              state |-> personality_state,
              turn |-> [NoTurn EXCEPT !.heuristic = HeuristicLoop(input, 1)]]
        ELSE LET updated == update_emotional_state(personality_state, input)
             IN  [response_text |->
                      extract_final_response(generate_persona_response(outcome),
                                             updated.name),
                  state |-> updated,
                  turn |-> [heuristic |-> 0, engine_called |-> TRUE,
                            rule |-> FiredRule(input), llm_called |-> TRUE,
                            status_code |-> outcome.status_code,
                            dropped |-> 0]]

\* The user sends a message in the chat input: lines 29-74, 87-88, 153-181.
SubmitMessage(input, outcome) ==
    /\ pc = "idle"
    /\ msg_count < MaxTurns
    /\ LET loaded == LoadPersonalities
           personality_state == loaded[selected_persona_from_ui]
           history == InitHistory(conversation_history, personality_state)
           result == Respond(personality_state, input, outcome)
       IN  /\ personalities' =
                  [loaded EXCEPT ![selected_persona_from_ui] = result.state]
           /\ conversation_history' =
                  AddToHistory(AddToHistory(history, "user", input),
                               "assistant", result.response_text)
           /\ last_response' = result.response_text
           /\ turn' = result.turn
           /\ seen_state' = personality_state
           /\ left_state' = result.state
    /\ user_input' = input
    /\ msg_count' = msg_count + 1
    /\ pc' = "rerun"
    /\ event' = "message"
    /\ UNCHANGED <<selected_persona, selected_persona_from_ui>>

\* The run st.rerun() starts: lines 29-111, no widget changed and no input.
Rerun ==
    /\ pc = "rerun"
    /\ LET loaded == LoadPersonalities
       IN  /\ personalities' = loaded
           /\ conversation_history' =
                  InitHistory(conversation_history, loaded[selected_persona_from_ui])
    /\ pc' = "idle"
    /\ event' = "rerun"
    /\ UNCHANGED <<selected_persona, selected_persona_from_ui, last_response,
                   msg_count, user_input, turn, seen_state, left_state>>

Next ==
    \/ \E choice \in PersonaSet : SelectPersona(choice) /\ UNCHANGED <<engine_vars, cleaner_vars>>
    \/ \E input \in SessionInputs, outcome \in Outcomes :
           SubmitMessage(input, outcome) /\ UNCHANGED <<engine_vars, cleaner_vars>>
    \/ Rerun /\ UNCHANGED <<engine_vars, cleaner_vars>>

Spec == Init /\ [][Next]_vars

(***************************************************************************)
(* update_emotional_state called again and again on one PersonalityState   *)
(***************************************************************************)
InitEngine ==
    /\ SessionStart
    /\ CleanerStart
    /\ ps \in [name : {<<"P","o","e">>}, system_prompt : {<<"Y","o","u"," ","a","r","e"," ","E","d","g","a","r"," ","A","l","l","a","n"," ","P","o",
       "e",".">>},
               emotional_state : {"melancholy"}, emotional_intensity : 0..10]
    /\ ps_before = ps
    /\ message = <<>>

EngineCall(input) ==
    /\ ps_before' = ps
    /\ message' = input
    /\ ps' = update_emotional_state(ps, input)
    /\ UNCHANGED <<session_vars, cleaner_vars>>

NextEngine == \E input \in UserInputs : EngineCall(input)

SpecEngine == InitEngine /\ [][NextEngine]_vars

(***************************************************************************)
(* extract_final_response applied to its own result                        *)
(***************************************************************************)
InitCleaner ==
    /\ SessionStart
    /\ EngineStart
    /\ raw_text \in RawTexts
    /\ cleaned = <<>>

CleanerCall ==
    /\ Len(cleaned) < MaxPasses
    /\ cleaned' =
           Append(cleaned,
                  extract_final_response(
                      IF cleaned = <<>> THEN raw_text ELSE cleaned[Len(cleaned)],
                      <<"P","o","e">>))
    /\ UNCHANGED <<raw_text, session_vars, engine_vars>>

NextCleaner == CleanerCall

SpecCleaner == InitCleaner /\ [][NextCleaner]_vars

(***************************************************************************)
(* Properties                                                              *)
(***************************************************************************)
\* the rules whose pattern matches the lower-cased input
MatchingRules(input) ==
    {k \in 1..Len(triggers) : WordSearch(triggers[k].word, Lower(input))}

\* input contains word as a whole word, in any case
HasWord(input, word) == WordSearch(word, Lower(input))

\* the trigger words, other than those of keep, that input contains
OtherTriggerWords(input, keep) ==
    {k \in MatchingRules(input) : triggers[k].word \notin keep}

\* the least element of a non-empty set of numbers
Least(S) == CHOOSE k \in S : \A j \in S : k <= j

\* n brought into 0..10
Bounded(n) == IF n < 0 THEN 0 ELSE IF n > 10 THEN 10 ELSE n

\* C1: update_emotional_state applies exactly the first rule, in declaration
\* order, whose pattern matches the lower-cased input: the state becomes that
\* rule's label and the intensity clamp(old + delta, 0, 10); later matching
\* rules have no effect; when no rule matches, nothing changes.
C1_FirstMatchingRuleOnly ==
    LET matching == MatchingRules(message)
    IN  IF matching = {}
        THEN ps = ps_before
        ELSE LET rule == triggers[Least(matching)]
             IN  ps = [ps_before EXCEPT
                          !.emotional_state = rule.emotion,
                          !.emotional_intensity =
                              Bounded(ps_before.emotional_intensity + rule.change)]

C1_Witness ==
    /\ Cardinality(MatchingRules(message)) >= 2
    /\ ps.emotional_state = triggers[Least(MatchingRules(message))].emotion
    /\ ps.emotional_state # ps_before.emotional_state

\* the last call's input contains the words "mortality" and "hope" and no
\* other trigger word
MortalityAndHope ==
    /\ HasWord(message, <<"m","o","r","t","a","l","i","t","y">>)
    /\ HasWord(message, <<"h","o","p","e">>)
    /\ OtherTriggerWords(message, {<<"m","o","r","t","a","l","i","t","y">>, <<"h","o","p","e">>}) = {}

\* C2 as stated: an input with both "mortality" and "hope" and no other
\* trigger word sets the state to "introspective" and the intensity to
\* clamp(old + 2, 0, 10).
C2_MortalityWinsOverHope ==
    MortalityAndHope =>
        /\ ps.emotional_state = "introspective"
        /\ ps.emotional_intensity = Bounded(ps_before.emotional_intensity + 2)

\* C2 amended: an input with both "mortality" and "hope" and no other
\* trigger word sets the state to "reflective" and the intensity to
\* clamp(old - 1, 0, 10), because the "hope" rule is declared before the
\* "mortality" rule.
C2_HopeWinsOverMortality ==
    MortalityAndHope =>
        /\ ps.emotional_state = "reflective"
        /\ ps.emotional_intensity = Bounded(ps_before.emotional_intensity - 1)

C2_Witness ==
    /\ MortalityAndHope
    /\ ps.emotional_state = "reflective"
    /\ ps_before.emotional_intensity = 5
    /\ ps.emotional_intensity = 4

\* C3 as stated: the intensity stays in 0..10 after any sequence of
\* messages; at intensity 0 an input containing "hope" leaves it at 0, and
\* at intensity 10 an input containing "mortality" leaves it at 10.
C3_IntensityStaysInRange ==
    /\ ps.emotional_intensity \in 0..10
    /\ (ps_before.emotional_intensity = 0 /\ HasWord(message, <<"h","o","p","e">>))
           => ps.emotional_intensity = 0
    /\ (ps_before.emotional_intensity = 10 /\ HasWord(message, <<"m","o","r","t","a","l","i","t","y">>))
           => ps.emotional_intensity = 10

\* C3 amended: the intensity stays in 0..10 after any sequence of messages;
\* at intensity 0 an input containing "hope" and no other trigger word
\* leaves it at 0, and at intensity 10 an input containing "mortality" and
\* no other trigger word leaves it at 10.
C3_IntensityStaysInRangeSingleTrigger ==
    /\ ps.emotional_intensity \in 0..10
    /\ ( /\ ps_before.emotional_intensity = 0
         /\ HasWord(message, <<"h","o","p","e">>)
         /\ OtherTriggerWords(message, {<<"h","o","p","e">>}) = {} )
           => ps.emotional_intensity = 0
    /\ ( /\ ps_before.emotional_intensity = 10
         /\ HasWord(message, <<"m","o","r","t","a","l","i","t","y">>)
         /\ OtherTriggerWords(message, {<<"m","o","r","t","a","l","i","t","y">>}) = {} )
           => ps.emotional_intensity = 10

C3_Witness ==
    /\ ps_before.emotional_intensity = 0
    /\ HasWord(message, <<"h","o","p","e">>)
    /\ OtherTriggerWords(message, {<<"h","o","p","e">>}) = {}
    /\ ps.emotional_state = "reflective"
    /\ ps.emotional_intensity = 0

\* the heuristic triggers the last message contains as case-insensitive
\* substrings
HeuristicHits ==
    {k \in 1..3 : Contains(Lower(user_input), <<<<"d","e","a","t","h">>, <<"l","o","v","e">>, <<"r","a","v","e","n">>>>[k])}

LastEntry == conversation_history[Len(conversation_history)]

\* C4: in a turn whose input contains a heuristic trigger as a
\* case-insensitive substring, the reply appended to the history is the
\* template of the first matching trigger in the order death, love, raven,
\* neither update_emotional_state nor the LLM call is made, and the
\* emotional state and intensity are unchanged.
C4_HeuristicShortCircuit ==
    (event = "message" /\ HeuristicHits # {}) =>
        /\ LastEntry = [role |-> "assistant",
                        content |-> HeuristicResponse(Least(HeuristicHits),
                                                      seen_state.name)]
        /\ ~turn.engine_called
        /\ ~turn.llm_called
        /\ left_state = seen_state
        /\ personalities[selected_persona] = seen_state

C4_Witness ==
    /\ event = "message"
    /\ user_input = <<"T","e","l","l"," ","m","e"," ","a","b","o","u","t"," ","t","h","e"," ","r","a","v","e",
       "n"," ","o","u","t","s","i","d","e">>
    /\ seen_state.name = <<"P","o","e">>
    /\ LastEntry.content = <<"T","h","e"," ","r","a","v","e","n",","," ","e","v","e","r"," ","w","a","t","c","h","f",
       "u","l",","," ","r","e","m","a","i","n","s"," ","a"," ","s","t","e","a","d","f","a","s",
       "t"," ","s","y","m","b","o","l"," ","o","f"," ","m","y"," ","c","o","n","t","e","m","p",
       "l","a","t","i","o","n","s",".">>

\* C5: when the user selects a persona different from the current one, the
\* history afterwards is exactly one system entry holding the new persona's
\* system_prompt, and the session's selected persona is the new selection.
C5_PersonaSwitchResetsHistory ==
    event = "select" =>
        /\ conversation_history =
               << [role |-> "system",
                   content |-> IdentityFile(selected_persona_from_ui).system_prompt] >>
        /\ selected_persona = selected_persona_from_ui

C5_Witness ==
    /\ event = "select"
    /\ turn.dropped >= 4
    /\ Len(conversation_history) = 1

\* C6: in every reachable session state the history is non-empty and its
\* first entry is a system entry holding the active persona's system_prompt.
C6_FirstEntryIsSystemPrompt ==
    /\ Len(conversation_history) >= 1
    /\ conversation_history[1] =
           [role |-> "system",
            content |-> IdentityFile(selected_persona).system_prompt]

C6_Witness ==
    /\ selected_persona = "tesla"
    /\ Len(conversation_history) >= 3
    /\ turn.dropped = 0
    /\ msg_count = MaxTurns

\* C7: when the LLM call of a turn fails with status 429,
\* generate_persona_response returns the rate-limit message, which is
\* appended unchanged as an assistant entry directly after the turn's user
\* entry, and the session goes on (the script reruns and waits for the next
\* message; C7_Witness is a later turn of the same conversation).
C7_RateLimitMessageAppended ==
    (turn.llm_called /\ turn.status_code = 429) =>
        /\ Len(conversation_history) >= 3
        /\ LastEntry = [role |-> "assistant", content |-> RateLimitMessage]
        /\ conversation_history[Len(conversation_history) - 1] =
               [role |-> "user", content |-> user_input]
        /\ last_response = RateLimitMessage
        /\ pc \in {"rerun", "idle"}

C7_Witness ==
    /\ msg_count >= 2
    /\ Len(conversation_history) >= 5
    /\ conversation_history[3] =
           [role |-> "assistant", content |-> RateLimitMessage]
    /\ conversation_history[5].role = "assistant"

\* s starts and ends with a triple-backtick fence
Fenced(s) == IsAt(s, Fence, 1) /\ Len(s) >= 3 /\ IsAt(s, Fence, Len(s) - 2)

\* C8 as stated: extract_final_response is idempotent on every raw text.
C8_CleanerIdempotent ==
    \A i \in 2..Len(cleaned) : cleaned[i] = cleaned[i - 1]

\* C8 amended: extract_final_response(extract_final_response(x)) equals
\* extract_final_response(x) for every raw text x whose cleaned form does
\* not itself start and end with a triple-backtick fence, texts with
\* repeated markers included; a text wrapped in more than one layer of
\* fences loses one layer per application.
C8_CleanerIdempotentUnlessStillFenced ==
    \A i \in 2..Len(cleaned) :
        ~Fenced(cleaned[i - 1]) => cleaned[i] = cleaned[i - 1]

C8_Witness ==
    /\ Len(cleaned) >= 2
    /\ Cardinality(Occurrences(raw_text, <<"R","E","S","P","O","N","S","E",":">>)) >= 2
    /\ cleaned[1] # raw_text
    /\ cleaned[1] # <<>>
    /\ cleaned[2] = cleaned[1]

\* C9: across successive messages to the same persona, the emotional state
\* and intensity seen when a message is processed are those the previous
\* message left.
C9_EmotionalStatePersists ==
    [][ ( /\ event' = "message"
          /\ msg_count' = msg_count + 1
          /\ msg_count >= 1
          /\ seen_state'.name = left_state.name )
        => seen_state' = left_state ]_vars

\* C10: in the full pipeline the rules for "death", "love" and "raven"
\* never fire: the only labels a turn assigns to emotional_state are
\* "anxious", "reflective" and "introspective".
C10_OnlyThreeLabelsAssigned ==
    /\ turn.rule # 0 =>
           triggers[turn.rule].emotion \in {"anxious", "reflective", "introspective"}
    /\ left_state.emotional_state # seen_state.emotional_state =>
           left_state.emotional_state \in {"anxious", "reflective", "introspective"}
    /\ ( \/ HasWord(user_input, <<"d","e","a","t","h">>)
         \/ HasWord(user_input, <<"l","o","v","e">>)
         \/ HasWord(user_input, <<"r","a","v","e","n">>) ) => ~turn.engine_called

C10_Witness ==
    /\ event = "message"
    /\ turn.engine_called
    /\ turn.rule # 0
    /\ triggers[turn.rule].emotion = "introspective"
    /\ seen_state.emotional_state = "melancholy"
    /\ left_state.emotional_state = "introspective"
    /\ left_state.emotional_intensity = 7

====
